---- MODULE Spec2Model ----
(***************************************************************************)
(* A model of the reading-session state machine of readera (src/src/App.tsx).*)
(*                                                                         *)
(* The component is a React function component.  Its state is the set of   *)
(* useState cells (ui); every callback and effect closes over the values   *)
(* of the render that created it (view).  State updates are batched and    *)
(* committed by a later Render step, which also runs the effects whose     *)
(* dependencies changed, cleanups first.  The rendering engine (epubjs) is *)
(* an opaque collaborator: each of its promises may resolve or reject.     *)
(*                                                                         *)
(* Encoding of JavaScript values:                                          *)
(*   - a Book / Rendition handle is the number of the load that built it;  *)
(*     NoHandle (0) is null;                                               *)
(*   - a string that the code splits or trims (href, label, custom font,   *)
(*     font stack) is a sequence of one-character strings; '' is << >>;    *)
(*   - error is "" for null, else the message;                             *)
(*   - progress is held in tenths of a percent (45.7 is 457).              *)
(***************************************************************************)
EXTENDS Integers, Sequences, FiniteSets, TLC

\* ------------------------------------------------------------------ bounds
\* Number of file selections (handleFileSelection calls) in a behaviour.
MaxLoads == 2
\* Number of typography / theme edits in a behaviour.
MaxEdits == 2
\* Number of navigation requests (goTo, goNext, goPrevious, slider) in a behaviour.
MaxNavs == 2
\* Levels and nodes of the navigation trees given to flatten.
MaxTocDepth == 3
MaxTocNodes == 4

\* --------------------------------------------------------- program constants
MIN_FONT_SIZE == 90
MAX_FONT_SIZE == 150
MIN_LINE_SPACING == 120
MAX_LINE_SPACING == 220
InitialFontSize == 110
InitialLineSpacing == 150
CUSTOM_FONT_ID == "custom"
LOAD_ERROR == "We could not open that EPUB. Please try a different file."

NoHandle == 0

\* FONT_OPTIONS, each stack abbreviated to one letter.
FONT_OPTIONS ==
    << [id |-> "reader-sans",       stack |-> <<"S">>],
       [id |-> "reader-serif",      stack |-> <<"B">>],
       [id |-> "editorial-serif",   stack |-> <<"E">>],
       [id |-> "mono",              stack |-> <<"M">>],
       [id |-> "reader-devanagari", stack |-> <<"k">>] >>

DEFAULT_FONT_STACK == FONT_OPTIONS[1].stack

ThemeNames == {"light", "sepia", "dark"}

\* --------------------------------------------------------------- pure code
\* Index of the first element of s that satisfies nothing but equality with c,
\* or 0 when there is none.
RECURSIVE IndexOfFrom(_, _, _)
IndexOfFrom(s, c, i) ==
    IF i > Len(s) THEN 0
    ELSE IF s[i] = c THEN i
    ELSE IndexOfFrom(s, c, i + 1)

\* href ? href.split('#')[0] : ''
normalizeHref(href) ==
    LET i == IndexOfFrom(href, "#", 1)
    IN  IF href = << >> THEN << >>
        ELSE IF i = 0 THEN href
        ELSE SubSeq(href, 1, i - 1)

\* String.prototype.trim over the one white-space character of the model.
RECURSIVE TrimLeft(_)
TrimLeft(s) ==
    IF s # << >> /\ Head(s) = " " THEN TrimLeft(Tail(s)) ELSE s

RECURSIVE TrimRight(_)
TrimRight(s) ==
    IF s # << >> /\ s[Len(s)] = " " THEN TrimRight(SubSeq(s, 1, Len(s) - 1)) ELSE s

trim(s) == TrimRight(TrimLeft(s))

\* flatten, had it passed its own depth down to the subitems.
RECURSIVE flatten_SameDepth(_, _)
flatten_SameDepth(items, depth) ==
    IF items = << >> THEN << >>
    ELSE LET item == Head(items)
             entry == [label |-> item.label, href |-> item.href,
                       subitems |-> item.subitems, depth |-> depth]
             below == IF Len(item.subitems) > 0
                      THEN flatten_SameDepth(item.subitems, depth)
                      ELSE << >>
         IN  <<entry>> \o below \o flatten_SameDepth(Tail(items), depth)

\* flatten(items, depth): pre-order, each entry with its depth.
RECURSIVE flatten(_, _)
flatten(items, depth) ==
    IF items = << >> THEN << >>
    ELSE LET item == Head(items)
             entry == [label |-> item.label, href |-> item.href,
                       subitems |-> item.subitems, depth |-> depth]
             below == IF Len(item.subitems) > 0
                      THEN flatten(item.subitems, depth + 1)
                      ELSE << >>
         IN  <<entry>> \o below \o flatten(Tail(items), depth)

tocItems(toc) == flatten(toc, 0)

\* Array.prototype.find on the normalised href.
RECURSIVE FindByHref(_, _)
FindByHref(items, normalized) ==
    IF items = << >> THEN << >>
    ELSE IF normalizeHref(Head(items).href) = normalized THEN <<Head(items)>>
    ELSE FindByHref(Tail(items), normalized)

\* resolveChapterTitle, had it fallen back to the last entry before the
\* locator's position when none matches.
resolveChapterTitle_Fallback(href, toc) ==
    IF href = << >> \/ Len(tocItems(toc)) = 0 THEN << >>
    ELSE LET match == FindByHref(tocItems(toc), normalizeHref(href))
         IN  IF match = << >> THEN trim(tocItems(toc)[1].label)
             ELSE trim(match[1].label)

resolveChapterTitle(href, toc) ==
    IF href = << >> \/ Len(tocItems(toc)) = 0 THEN << >>
    ELSE LET match == FindByHref(tocItems(toc), normalizeHref(href))
         IN  IF match = << >> THEN << >> ELSE trim(match[1].label)

RECURSIVE FindStack(_, _)
FindStack(options, id) ==
    IF options = << >> THEN << >>
    ELSE IF Head(options).id = id THEN Head(options).stack
    ELSE FindStack(Tail(options), id)

\* activeFontStack without the fallback for blank custom text.
activeFontStack_NoFallback(fontChoice, customFont) ==
    IF fontChoice = CUSTOM_FONT_ID
    THEN trim(customFont)
    ELSE (IF FindStack(FONT_OPTIONS, fontChoice) # << >>
          THEN FindStack(FONT_OPTIONS, fontChoice)
          ELSE DEFAULT_FONT_STACK)

activeFontStack(fontChoice, customFont) ==
    IF fontChoice = CUSTOM_FONT_ID
    THEN (IF trim(customFont) # << >> THEN trim(customFont) ELSE DEFAULT_FONT_STACK)
    ELSE (IF FindStack(FONT_OPTIONS, fontChoice) # << >>
          THEN FindStack(FONT_OPTIONS, fontChoice)
          ELSE DEFAULT_FONT_STACK)

\* (lineSpacing / 100).toFixed(2): units and hundredths.
lineHeightValue(lineSpacing) ==
    [units |-> lineSpacing \div 100, hundredths |-> lineSpacing % 100]

\* The parts of the composed style sheet that vary.
composedTheme(theme, fontChoice, customFont, lineSpacing) ==
    [base       |-> IF theme \in ThemeNames THEN theme ELSE "light",
     fontFamily |-> activeFontStack(fontChoice, customFont),
     lineHeight |-> lineHeightValue(lineSpacing)]

\* ------------------------------------------------------------ the test data
\* The EPUB files a user can pick: name and navigation tree.
Leaf(label, href) == [label |-> label, href |-> href, subitems |-> << >>]

Files ==
    << [name |-> "one.epub",
        toc  |-> << [label |-> <<" ", "I", " ">>, href |-> <<"a">>,
                     subitems |-> << Leaf(<<"S">>, <<"a", "#", "s">>) >>],
                    Leaf(<<"C">>, <<"b", "#", "x">>) >>] >>

FileIds == 1..Len(Files)

\* ---------------------------------------------------------------- the state
VARIABLES
    ui,           \* the useState cells: the values the next render will see
    view,         \* the committed render: the values every closure captured
    mounted,      \* the component is mounted (viewerRef.current is set)
    bookSt,       \* engine: per Book "none" | "live" | "destroyed"
    rendSt,       \* engine: per Rendition "none" | "live" | "destroyed"
    locations,    \* engine: per Book, book.locations.length() > 0
    rendFont,     \* engine: per Rendition, the font-size scale last applied
    rendTheme,    \* engine: per Rendition, the selected 'reader-active' sheet
    navPending,   \* engine: per Rendition, a display/next/prev not yet relocated
    sub,          \* the 'relocated' listener now attached, with its closure
    loads,        \* per handleFileSelection call: position and closure
    pendingNull,  \* destroyCurrentBook calls of effect cleanups awaiting book.destroy()
    edits,        \* typography edits so far
    navs,         \* navigation requests so far
    op,           \* the step just taken, with the engine calls it issued
    derived       \* a derived value (useMemo / useCallback) under evaluation

vars == <<ui, view, mounted, bookSt, rendSt, locations, rendFont, rendTheme,
          navPending, sub, loads, pendingNull, edits, navs, op, derived>>

engineVars == <<bookSt, rendSt, locations, rendFont, rendTheme, navPending>>
budgetVars == <<edits, navs>>

LoadIds == 1..MaxLoads

NoTheme == [base |-> "none", fontFamily |-> << >>,
            lineHeight |-> [units |-> 0, hundredths |-> 0]]

NoSub == [rendition |-> NoHandle, book |-> NoHandle, toc |-> << >>]

\* An engine call: method, handle, and the argument of display().
Call(m, h) == [m |-> m, h |-> h, href |-> << >>, pct |-> -1]
CallHref(m, h, href) == [m |-> m, h |-> h, href |-> href, pct |-> -1]
CallPct(m, h, pct) == [m |-> m, h |-> h, href |-> << >>, pct |-> pct]

\* The step just taken: its name, the load it belongs to, its argument, the
\* failure that ended the load (when the step returns from the catch block)
\* and the engine calls it issued.
Op(name, l, calls) ==
    [name |-> name, load |-> l, href |-> << >>, pct |-> -1, cause |-> "",
     calls |-> calls]
OpHref(name, href, calls) == [Op(name, 0, calls) EXCEPT !.href = href]
OpPct(name, pct, calls) == [Op(name, 0, calls) EXCEPT !.pct = pct]
OpFailed(name, l, cause, calls) == [Op(name, l, calls) EXCEPT !.cause = cause]

InitialUi ==
    [book |-> NoHandle, rendition |-> NoHandle, toc |-> << >>, progress |-> 0,
     fontSize |-> InitialFontSize, theme |-> "light", currentChapter |-> << >>,
     fileName |-> "", loading |-> FALSE, error |-> "",
     fontChoice |-> FONT_OPTIONS[1].id, customFont |-> << >>,
     lineSpacing |-> InitialLineSpacing, activeHref |-> << >>]

IdleLoad ==
    [pc |-> "idle", file |-> 0, cBook |-> NoHandle, cRend |-> NoHandle,
     cFontSize |-> 0, cleared |-> FALSE, cause |-> "", sequential |-> FALSE]

\* No derived value is under evaluation.
NoDerived ==
    [fn |-> "none", toc |-> << >>, href |-> << >>, fontChoice |-> "",
     customFont |-> << >>, done |-> FALSE, result |-> << >>]

InitComponent ==
    /\ ui = InitialUi
    /\ view = [st |-> InitialUi, locationsReady |-> FALSE]
    /\ mounted = TRUE
    /\ bookSt = [i \in LoadIds |-> "none"]
    /\ rendSt = [i \in LoadIds |-> "none"]
    /\ locations = [i \in LoadIds |-> FALSE]
    /\ rendFont = [i \in LoadIds |-> 0]
    /\ rendTheme = [i \in LoadIds |-> NoTheme]
    /\ navPending = [i \in LoadIds |-> FALSE]
    /\ sub = NoSub
    /\ loads = [l \in LoadIds |-> IdleLoad]
    /\ pendingNull = 0
    /\ edits = 0
    /\ navs = 0
    /\ op = Op("init", 0, {})

Init == InitComponent /\ derived = NoDerived

\* A state update is waiting for its render.
Dirty == view.st # ui

\* A user event or an engine notification is handled only by a mounted
\* component whose pending updates have been committed.
Settled == mounted /\ ~Dirty

\* An engine promise settles between renders, or after the unmount.
Resumable == ~mounted \/ ~Dirty

\* A state setter: React drops the update of an unmounted component.
SetState(u) == IF mounted THEN u ELSE ui

\* book ? book.locations.length() > 0 : false
HasIndex(b) == IF b = NoHandle THEN FALSE ELSE locations[b]

\* ------------------------------------------------- derived values of a render
hasBook == view.st.book # NoHandle
locationsReady == view.locationsReady
navDisabled == ~hasBook \/ view.st.loading
sliderDisabled == ~locationsReady \/ view.st.loading
tocDisabled == ~hasBook \/ view.st.loading
fileInputDisabled == FALSE
themeControlDisabled == FALSE
fontControlDisabled == FALSE
fontSizeControlDisabled == FALSE
lineSpacingControlDisabled == FALSE

\* ------------------------------------------------------ typography handlers
\* The values the controls are moved to.
FontSizeInputs == {MAX_FONT_SIZE}
LineSpacingInputs == {MAX_LINE_SPACING}
ThemeInputs == {"dark"}
FontChoiceInputs == {CUSTOM_FONT_ID}
CustomFontInputs == {<<"X", " ">>}

\* A change event: the control's value differs from the rendered one.
Edit(name, newUi) ==
    /\ Settled
    /\ newUi # ui
    /\ edits < MaxEdits
    /\ edits' = edits + 1
    /\ ui' = newUi
    /\ op' = Op(name, 0, {})
    /\ UNCHANGED <<view, mounted, derived, engineVars, sub, loads, pendingNull, navs>>

handleFontSizeChange ==
    \E v \in FontSizeInputs :
        Edit("handleFontSizeChange", [ui EXCEPT !.fontSize = v])

handleThemeChange ==
    \E v \in ThemeInputs :
        Edit("handleThemeChange", [ui EXCEPT !.theme = v])

handleFontChoiceChange ==
    \E v \in FontChoiceInputs :
        Edit("handleFontChoiceChange", [ui EXCEPT !.fontChoice = v])

handleCustomFontChange ==
    \E v \in CustomFontInputs :
        /\ view.st.fontChoice = CUSTOM_FONT_ID
        /\ Edit("handleCustomFontChange", [ui EXCEPT !.customFont = v])

handleLineSpacingChange ==
    \E v \in LineSpacingInputs :
        Edit("handleLineSpacingChange", [ui EXCEPT !.lineSpacing = v])

\* ------------------------------------------------------------ destroyCurrentBook
\* The synchronous part of destroyCurrentBook for the closure (b, r):
\* rendition.destroy(), setRendition(null), then the call of book.destroy().
\* Its continuation, setBook(null), runs when book.destroy() resolves.
DestroyCalls(b, r) ==
    (IF r # NoHandle THEN {Call("rendition.destroy", r)} ELSE {})
        \cup (IF b # NoHandle THEN {Call("book.destroy", b)} ELSE {})

DestroyUi(u, b, r) ==
    IF r # NoHandle THEN [u EXCEPT !.rendition = NoHandle] ELSE u

DestroyRendSt(rs, r) ==
    IF r # NoHandle THEN [rs EXCEPT ![r] = "destroyed"] ELSE rs

DestroyBookSt(bs, b) ==
    IF b # NoHandle THEN [bs EXCEPT ![b] = "destroyed"] ELSE bs

\* ------------------------------------------------------------------- render
\* Dependency lists of the four effects, compared between two renders.
\* The dependency list of the font-size effect without the rendition.
FontSizeDepsChanged_SizeOnly(old, new) == old.fontSize # new.fontSize

FontSizeDepsChanged(old, new) ==
    old.fontSize # new.fontSize \/ old.rendition # new.rendition

ThemeOf(u) == composedTheme(u.theme, u.fontChoice, u.customFont, u.lineSpacing)

ThemeDepsChanged(old, new) ==
    old.rendition # new.rendition \/ ThemeOf(old) # ThemeOf(new)

RelocatedDepsChanged(old, new) ==
    old.book # new.book \/ old.rendition # new.rendition \/ old.toc # new.toc

DestroyDepsChanged(old, new) ==
    old.book # new.book \/ old.rendition # new.rendition

\* React commits the pending updates: every closure is rebuilt from ui, the
\* cleanups of the effects whose dependencies changed run (with the closures
\* of the previous render), then those effects run again.
Render ==
    /\ mounted
    /\ Dirty
    /\ LET old == view.st
           new == ui
           unsub == RelocatedDepsChanged(old, new) /\ sub # NoSub
           cleanup == DestroyDepsChanged(old, new)
           cb == IF cleanup THEN old.book ELSE NoHandle
           cr == IF cleanup THEN old.rendition ELSE NoHandle
           applyFont == FontSizeDepsChanged(old, new) /\ new.rendition # NoHandle
           applyTheme == ThemeDepsChanged(old, new) /\ new.rendition # NoHandle
           calls ==
               (IF unsub THEN {Call("rendition.off", sub.rendition)} ELSE {})
               \cup DestroyCalls(cb, cr)
               \cup (IF applyFont
                     THEN {Call("themes.fontSize", new.rendition)} ELSE {})
               \cup (IF applyTheme
                     THEN {Call("themes.register", new.rendition),
                           Call("themes.select", new.rendition)} ELSE {})
               \cup (IF RelocatedDepsChanged(old, new)
                        /\ new.book # NoHandle /\ new.rendition # NoHandle
                     THEN {Call("rendition.on", new.rendition)} ELSE {})
       IN  /\ view' = [st |-> new,
                       locationsReady |-> HasIndex(new.book)]
           /\ ui' = DestroyUi(ui, cb, cr)
           /\ rendSt' = DestroyRendSt(rendSt, cr)
           /\ bookSt' = DestroyBookSt(bookSt, cb)
           /\ \/ pendingNull' = IF cb # NoHandle THEN pendingNull + 1
                                ELSE pendingNull
              \/ \* book.destroy() rejects: the cleanup's promise is dropped
                 /\ cb # NoHandle
                 /\ UNCHANGED pendingNull
           /\ rendFont' = IF applyFont
                          THEN [rendFont EXCEPT ![new.rendition] = new.fontSize]
                          ELSE rendFont
           /\ rendTheme' = IF applyTheme
                           THEN [rendTheme EXCEPT ![new.rendition] = ThemeOf(new)]
                           ELSE rendTheme
           /\ sub' = IF RelocatedDepsChanged(old, new)
                     THEN (IF new.book # NoHandle /\ new.rendition # NoHandle
                           THEN [rendition |-> new.rendition, book |-> new.book,
                                 toc |-> new.toc]
                           ELSE NoSub)
                     ELSE sub
           /\ op' = Op("Render", 0, calls)
    /\ UNCHANGED <<mounted, derived, locations, navPending, loads, edits, navs>>

\* book.destroy() of an effect cleanup resolved: setBook(null).
CleanupDestroyed ==
    /\ pendingNull > 0
    /\ pendingNull' = pendingNull - 1
    /\ ui' = IF mounted THEN [ui EXCEPT !.book = NoHandle] ELSE ui
    /\ op' = Op("CleanupDestroyed", 0, {})
    /\ UNCHANGED <<view, mounted, derived, engineVars, sub, loads, budgetVars>>

\* The component unmounts: the cleanup of the relocated effect detaches the
\* listener and the cleanup of the last effect calls destroyCurrentBook with
\* the closure of the committed render.  Its state updates, and the one
\* after `await book.destroy()`, are dropped.  The unmount is a task of its
\* own: it does not come between the settlement of `await
\* destroyCurrentBook()` and the try block that continues from it.
Unmount ==
    /\ Settled
    /\ \A l \in LoadIds : loads[l].pc # "constructing"
    /\ mounted' = FALSE
    /\ rendSt' = DestroyRendSt(rendSt, view.st.rendition)
    /\ bookSt' = DestroyBookSt(bookSt, view.st.book)
    /\ sub' = NoSub
    /\ op' = Op("Unmount", 0,
                (IF sub # NoSub THEN {Call("rendition.off", sub.rendition)} ELSE {})
                    \cup DestroyCalls(view.st.book, view.st.rendition))
    /\ UNCHANGED <<ui, view, locations, rendFont, rendTheme, navPending, loads,
                   pendingNull, budgetVars, derived>>

\* -------------------------------------------------------------------- loads
\* Positions of one handleFileSelection / initialiseBook call:
\*   idle         not yet requested
\*   reading      awaiting file.arrayBuffer()                      (line 304)
\*   destroying   awaiting book.destroy() of destroyCurrentBook    (line 257)
\*   constructing resumed after `await destroyCurrentBook()`      (line 259)
\*   displaying   awaiting nextRendition.display()                 (line 274)
\*   navigating   awaiting nextBook.loaded.navigation              (line 276)
\*   readying     awaiting nextBook.ready                          (line 279)
\*   generating   awaiting nextBook.locations.generate(1200)       (line 281)
\*   rollback     awaiting book.destroy() in the catch block       (line 291)
\*   done         returned after the try block completed
\*   failed       returned after the catch block ran
\*   aborted      rejected outside the try block (line 257)
\*   skipped      returned at `if (!viewerRef.current)`            (line 246)
\* cBook, cRend and cFontSize are the values the handler's closure captured;
\* cleared records that the call ran setLoading(false); cause names, while
\* the catch block awaits, the step whose failure entered it; sequential
\* records that the call was requested when the previous one had returned
\* with its session published.
InFlight == {"destroying", "constructing", "displaying", "navigating",
             "readying", "generating", "rollback"}
Exited == {"done", "failed", "aborted"}

SetPc(l, pc) == loads' = [loads EXCEPT ![l].pc = pc]
Finish(l, pc) == loads' = [loads EXCEPT ![l].pc = pc, ![l].cleared = TRUE]

\* An input's file list was chosen or dropped; the handler of the committed
\* render runs and awaits file.arrayBuffer().
handleFileSelection(l) ==
    \E f \in FileIds :
        /\ Settled
        /\ loads[l].pc = "idle"
        /\ l > 1 => loads[l - 1].pc # "idle"
        /\ loads' = [loads EXCEPT ![l] =
                        [pc |-> "reading", file |-> f,
                         cBook |-> view.st.book, cRend |-> view.st.rendition,
                         cFontSize |-> view.st.fontSize, cleared |-> FALSE,
                         cause |-> "",
                         sequential |->
                             \/ l = 1
                             \/ /\ loads[l - 1].pc = "done"
                                /\ view.st.book = l - 1
                                /\ view.st.rendition = l - 1]]
        /\ op' = Op("handleFileSelection", l, {})
        /\ UNCHANGED <<ui, view, mounted, derived, engineVars, sub, pendingNull, budgetVars>>

\* initialiseBook, had its resets included the font size.
initialiseBook_ResetsFontSize(l) ==
    /\ loads[l].pc = "reading"
    /\ Resumable
    /\ LET cb == loads[l].cBook
           cr == loads[l].cRend
           reset == [ui EXCEPT !.loading = TRUE, !.error = "", !.progress = 0,
                               !.currentChapter = << >>, !.toc = << >>,
                               !.activeHref = << >>, !.fontSize = InitialFontSize]
       IN  IF mounted
           THEN /\ ui' = DestroyUi(reset, cb, cr)
                /\ rendSt' = DestroyRendSt(rendSt, cr)
                /\ bookSt' = DestroyBookSt(bookSt, cb)
                /\ SetPc(l, IF cb # NoHandle THEN "destroying" ELSE "constructing")
                /\ op' = Op("initialiseBook", l, DestroyCalls(cb, cr))
           ELSE /\ SetPc(l, "skipped")
                /\ op' = Op("initialiseBook", l, {})
                /\ UNCHANGED <<ui, rendSt, bookSt>>
    /\ UNCHANGED <<view, mounted, derived, locations, rendFont, rendTheme, navPending,
                   sub, pendingNull, budgetVars>>

\* initialiseBook up to its first await: the resets, then the synchronous
\* part of destroyCurrentBook with the closure of the handler's render.
\* Without a viewer element (after the unmount) it returns at once.
initialiseBook(l) ==
    /\ loads[l].pc = "reading"
    /\ Resumable
    /\ LET cb == loads[l].cBook
           cr == loads[l].cRend
           reset == [ui EXCEPT !.loading = TRUE, !.error = "", !.progress = 0,
                               !.currentChapter = << >>, !.toc = << >>,
                               !.activeHref = << >>]
       IN  IF mounted
           THEN /\ ui' = DestroyUi(reset, cb, cr)
                /\ rendSt' = DestroyRendSt(rendSt, cr)
                /\ bookSt' = DestroyBookSt(bookSt, cb)
                /\ SetPc(l, IF cb # NoHandle THEN "destroying" ELSE "constructing")
                /\ op' = Op("initialiseBook", l, DestroyCalls(cb, cr))
           ELSE /\ SetPc(l, "skipped")
                /\ op' = Op("initialiseBook", l, {})
                /\ UNCHANGED <<ui, rendSt, bookSt>>
    /\ UNCHANGED <<view, mounted, derived, locations, rendFont, rendTheme, navPending,
                   sub, pendingNull, budgetVars>>

\* `await book.destroy()` of line 257 settles.  Resolved: setBook(null) and
\* the try block is next.  Rejected: initialiseBook rejects, outside the try.
destroyed(l) ==
    /\ loads[l].pc = "destroying"
    /\ \/ /\ ui' = SetState([ui EXCEPT !.book = NoHandle])
          /\ SetPc(l, "constructing")
       \/ /\ UNCHANGED ui
          /\ SetPc(l, "aborted")
    /\ op' = Op("destroyed", l, {})
    /\ UNCHANGED <<view, mounted, derived, engineVars, sub, pendingNull, edits, navs>>

\* The catch block from state u up to its await, and the finally block when
\* destroyCurrentBook has nothing to await.
CatchUi(l, u) ==
    LET e == [u EXCEPT !.error = LOAD_ERROR, !.fileName = "", !.toc = << >>,
                       !.progress = 0, !.currentChapter = << >>,
                       !.activeHref = << >>]
        d == DestroyUi(e, loads[l].cBook, loads[l].cRend)
    IN  IF loads[l].cBook = NoHandle THEN [d EXCEPT !.loading = FALSE] ELSE d

Catch(l, u, bs, rs, name) ==
    /\ ui' = SetState(CatchUi(l, u))
    /\ rendSt' = DestroyRendSt(rs, loads[l].cRend)
    /\ bookSt' = DestroyBookSt(bs, loads[l].cBook)
    /\ IF loads[l].cBook = NoHandle
       THEN /\ Finish(l, "failed")
            /\ op' = OpFailed(name, l, name, DestroyCalls(NoHandle, loads[l].cRend))
       ELSE /\ loads' = [loads EXCEPT ![l].pc = "rollback", ![l].cause = name]
            /\ op' = Op(name, l, DestroyCalls(loads[l].cBook, loads[l].cRend))

\* The try block up to `await nextRendition.display()`.
construct(l) ==
    /\ loads[l].pc = "constructing"
    /\ \/ \* ePub(...) throws
          /\ Catch(l, ui, bookSt, rendSt, "construct")
          /\ UNCHANGED <<rendFont, navPending>>
       \/ \* renderTo(...) throws: the Book exists and is referenced nowhere
          /\ Catch(l, ui, [bookSt EXCEPT ![l] = "live"], rendSt, "construct")
          /\ UNCHANGED <<rendFont, navPending>>
       \/ /\ bookSt' = [bookSt EXCEPT ![l] = "live"]
          /\ rendSt' = [rendSt EXCEPT ![l] = "live"]
          /\ rendFont' = [rendFont EXCEPT ![l] = loads[l].cFontSize]
          /\ navPending' = [navPending EXCEPT ![l] = TRUE]
          /\ ui' = SetState([ui EXCEPT !.book = l, !.rendition = l,
                                       !.fileName = Files[loads[l].file].name])
          /\ SetPc(l, "displaying")
          /\ op' = Op("construct", l, {Call("themes.fontSize", l),
                                       Call("rendition.display", l)})
    /\ UNCHANGED <<view, mounted, derived, locations, rendTheme, sub, pendingNull, edits, navs>>

\* An awaited engine promise of the try block rejects.
Rejects(l, name) ==
    /\ Catch(l, ui, bookSt, rendSt, name)
    /\ UNCHANGED locations

displayed(l) ==
    /\ loads[l].pc = "displaying"
    /\ Resumable
    /\ \/ /\ SetPc(l, "navigating")
          /\ op' = Op("displayed", l, {})
          /\ UNCHANGED <<ui, bookSt, rendSt, locations>>
       \/ Rejects(l, "displayed")
    /\ UNCHANGED <<view, mounted, derived, rendFont, rendTheme, navPending, sub,
                   pendingNull, edits, navs>>

navigationLoaded(l) ==
    /\ loads[l].pc = "navigating"
    /\ Resumable
    /\ \/ /\ ui' = SetState([ui EXCEPT !.toc = Files[loads[l].file].toc])
          /\ SetPc(l, "readying")
          /\ op' = Op("navigationLoaded", l, {})
          /\ UNCHANGED <<bookSt, rendSt, locations>>
       \/ Rejects(l, "navigationLoaded")
    /\ UNCHANGED <<view, mounted, derived, rendFont, rendTheme, navPending, sub,
                   pendingNull, edits, navs>>

\* nextBook.ready settles; without a location index generate(1200) is called.
bookReady(l) ==
    /\ loads[l].pc = "readying"
    /\ Resumable
    /\ \/ /\ IF ~locations[l]
             THEN /\ SetPc(l, "generating")
                  /\ op' = Op("bookReady", l, {Call("locations.generate", l)})
                  /\ UNCHANGED ui
             ELSE /\ Finish(l, "done")
                  /\ op' = Op("bookReady", l, {})
                  /\ ui' = SetState([ui EXCEPT !.loading = FALSE])
          /\ UNCHANGED <<bookSt, rendSt, locations>>
       \/ Rejects(l, "bookReady")
    /\ UNCHANGED <<view, mounted, derived, rendFont, rendTheme, navPending, sub,
                   pendingNull, edits, navs>>

\* locations.generate settles; on success the finally block ends the call.
generated(l) ==
    /\ loads[l].pc = "generating"
    /\ Resumable
    /\ \/ /\ locations' = [locations EXCEPT ![l] = TRUE]
          /\ ui' = SetState([ui EXCEPT !.loading = FALSE])
          /\ Finish(l, "done")
          /\ op' = Op("generated", l, {})
          /\ UNCHANGED <<bookSt, rendSt>>
       \/ Rejects(l, "generated")
    /\ UNCHANGED <<view, mounted, derived, rendFont, rendTheme, navPending, sub,
                   pendingNull, edits, navs>>

\* `await destroyCurrentBook()` of the catch block settles, then finally.
rolledBack(l) ==
    /\ loads[l].pc = "rollback"
    /\ \/ ui' = SetState([ui EXCEPT !.book = NoHandle, !.loading = FALSE])
       \/ ui' = SetState([ui EXCEPT !.loading = FALSE])
    /\ loads' = [loads EXCEPT ![l].pc = "failed", ![l].cleared = TRUE,
                               ![l].cause = ""]
    /\ op' = OpFailed("rolledBack", l, loads[l].cause, {})
    /\ UNCHANGED <<view, mounted, derived, engineVars, sub, pendingNull, edits, navs>>

\* --------------------------------------------------------------- navigation
\* The hrefs of the TOC buttons of the committed render.
RECURSIVE HrefsOf(_)
HrefsOf(items) ==
    IF items = << >> THEN {} ELSE {Head(items).href} \cup HrefsOf(Tail(items))

RenderedHrefs == HrefsOf(tocItems(view.st.toc))
AllHrefs == UNION {HrefsOf(tocItems(Files[f].toc)) : f \in FileIds}
ProgressInputs == {457, 1000}

\* A handler runs from its enabled control, or is invoked although its own
\* guard fails (the defensive path of the guard).
Nav ==
    /\ Settled
    /\ navs < MaxNavs
    /\ navs' = navs + 1

\* goTo, had it also set the chapter title of the entry it jumps to.
goTo_SetsChapter ==
    \E href \in AllHrefs :
        /\ Nav
        /\ \/ ~tocDisabled /\ href \in RenderedHrefs
           \/ view.st.rendition = NoHandle
        /\ IF view.st.rendition = NoHandle
           THEN /\ op' = OpHref("goTo", href, {})
                /\ UNCHANGED <<ui, navPending>>
           ELSE /\ ui' = [ui EXCEPT !.activeHref = normalizeHref(href),
                                    !.currentChapter =
                                        resolveChapterTitle(href, view.st.toc)]
                /\ navPending' = [navPending EXCEPT ![view.st.rendition] = TRUE]
                /\ op' = OpHref("goTo", href,
                            {CallHref("rendition.display", view.st.rendition, href)})
        /\ UNCHANGED <<view, mounted, derived, bookSt, rendSt, locations, rendFont,
                       rendTheme, sub, loads, pendingNull, edits>>

goTo ==
    \E href \in AllHrefs :
        /\ Nav
        /\ \/ ~tocDisabled /\ href \in RenderedHrefs
           \/ view.st.rendition = NoHandle
        /\ IF view.st.rendition = NoHandle
           THEN /\ op' = OpHref("goTo", href, {})
                /\ UNCHANGED <<ui, navPending>>
           ELSE /\ ui' = [ui EXCEPT !.activeHref = normalizeHref(href)]
                /\ navPending' = [navPending EXCEPT ![view.st.rendition] = TRUE]
                /\ op' = OpHref("goTo", href,
                            {CallHref("rendition.display", view.st.rendition, href)})
        /\ UNCHANGED <<view, mounted, derived, bookSt, rendSt, locations, rendFont,
                       rendTheme, sub, loads, pendingNull, edits>>

\* goPrevious / goNext without the `if (!rendition) return` guard.
Page_Unguarded(name, method) ==
    /\ Nav
    /\ ~navDisabled \/ view.st.rendition = NoHandle
    /\ navPending' = IF view.st.rendition = NoHandle THEN navPending
                     ELSE [navPending EXCEPT ![view.st.rendition] = TRUE]
    /\ op' = Op(name, 0, {Call(method, view.st.rendition)})
    /\ UNCHANGED <<ui, view, mounted, derived, bookSt, rendSt, locations, rendFont,
                   rendTheme, sub, loads, pendingNull, edits>>

Page(name, method) ==
    /\ Nav
    /\ ~navDisabled \/ view.st.rendition = NoHandle
    /\ IF view.st.rendition = NoHandle
       THEN /\ op' = Op(name, 0, {})
            /\ UNCHANGED navPending
       ELSE /\ navPending' = [navPending EXCEPT ![view.st.rendition] = TRUE]
            /\ op' = Op(name, 0, {Call(method, view.st.rendition)})
    /\ UNCHANGED <<ui, view, mounted, derived, bookSt, rendSt, locations, rendFont,
                   rendTheme, sub, loads, pendingNull, edits>>

goPrevious == Page("goPrevious", "rendition.prev")

goNext == Page("goNext", "rendition.next")

\* !book || !rendition || !book.locations.length()
ProgressGuardFails ==
    \/ view.st.book = NoHandle
    \/ view.st.rendition = NoHandle
    \/ ~HasIndex(view.st.book)

handleProgressChange ==
    \E value \in ProgressInputs :
        /\ Nav
        /\ ~sliderDisabled \/ ProgressGuardFails
        /\ IF ProgressGuardFails
           THEN /\ op' = OpPct("handleProgressChange", value, {})
                /\ UNCHANGED <<ui, navPending>>
           ELSE /\ ui' = [ui EXCEPT !.progress = value]
                /\ navPending' = [navPending EXCEPT ![view.st.rendition] = TRUE]
                /\ op' = OpPct("handleProgressChange", value,
                            {CallPct("rendition.display", view.st.rendition, value)})
        /\ UNCHANGED <<view, mounted, derived, bookSt, rendSt, locations, rendFont,
                       rendTheme, sub, loads, pendingNull, edits>>

\* ------------------------------------------------------------- relocation
\* A relocation event: whether it has a start, the start's href, and the
\* fraction percentageFromCfi returns for it, in ten-thousandths, or not finite.
RelocationInputs ==
    { [hasStart |-> FALSE, href |-> << >>,            finite |-> TRUE,  fraction |-> 0],
      [hasStart |-> TRUE,  href |-> <<"a">>,          finite |-> TRUE,  fraction |-> 4567],
      [hasStart |-> TRUE,  href |-> <<"b", "#", "y">>, finite |-> FALSE, fraction |-> 0],
      [hasStart |-> TRUE,  href |-> <<"z">>,          finite |-> TRUE,  fraction |-> 10000] }

\* The percentage cut to one decimal place instead of rounded.
RoundedProgress_Truncated(fraction) == fraction \div 10

\* Number((percentage * 100).toFixed(1)), in tenths of a percent.
RoundedProgress(fraction) == (fraction + 5) \div 10

\* onRelocated, had it stored the start href as reported.
onRelocated_RawHref(u, location) ==
    IF ~location.hasStart THEN u
    ELSE LET href == location.href
             moved == [u EXCEPT !.activeHref = href,
                                !.currentChapter = resolveChapterTitle(href, sub.toc)]
         IN  IF HasIndex(sub.book)
             THEN [moved EXCEPT !.progress =
                      IF location.finite THEN RoundedProgress(location.fraction) ELSE 0]
             ELSE moved

onRelocated(u, location) ==
    IF ~location.hasStart THEN u
    ELSE LET href == normalizeHref(location.href)
             moved == [u EXCEPT !.activeHref = href,
                                !.currentChapter = resolveChapterTitle(href, sub.toc)]
         IN  IF HasIndex(sub.book)
             THEN [moved EXCEPT !.progress =
                      IF location.finite THEN RoundedProgress(location.fraction) ELSE 0]
             ELSE moved

\* The engine finishes a navigation of rendition r and emits 'relocated'.
Relocated(r) ==
    \E location \in RelocationInputs :
        /\ Settled
        /\ rendSt[r] = "live"
        /\ navPending[r]
        /\ navPending' = [navPending EXCEPT ![r] = FALSE]
        /\ ui' = IF sub.rendition = r THEN onRelocated(ui, location) ELSE ui
        /\ op' = [Op("Relocated", r, {}) EXCEPT !.href = location.href]
        /\ UNCHANGED <<view, mounted, derived, bookSt, rendSt, locations, rendFont,
                       rendTheme, sub, loads, pendingNull, budgetVars>>

\* ----------------------------------------------------------- derived values
\* The navigation trees an EPUB can carry: at most MaxTocNodes items over at
\* most MaxTocDepth levels.  An item's label goes with its href.
TocHrefs == {<<"a">>, <<"a", "#", "s">>, <<"b">>}

TocLabel(href) ==
    IF href = <<"a">> THEN <<" ", "I", " ">>
    ELSE IF href = <<"b">> THEN <<"C", " ">>
    ELSE <<"S">>

RECURSIVE CountItems(_)
CountItems(items) ==
    IF items = << >> THEN 0
    ELSE 1 + CountItems(Head(items).subitems) + CountItems(Tail(items))

RECURSIVE NavTrees(_, _)
NavTrees(depth, nodes) ==
    IF depth = 0 \/ nodes = 0 THEN {<< >>}
    ELSE {<< >>} \cup
         UNION { UNION { { <<[label |-> TocLabel(h), href |-> h, subitems |-> c]>> \o r :
                             r \in NavTrees(depth, nodes - 1 - CountItems(c)) } :
                         c \in NavTrees(depth - 1, nodes - 1) } :
                 h \in TocHrefs }

\* The locators resolveChapterTitle is asked about.
LocatorInputs ==
    {<< >>, <<"a">>, <<"a", "#", "t">>, <<"#", "s">>, <<"b", "#", "x">>, <<"z">>}

\* The font ids and custom texts activeFontStack is computed from.
FontIdInputs ==
    {FONT_OPTIONS[i].id : i \in 1..Len(FONT_OPTIONS)} \cup {CUSTOM_FONT_ID, "unknown"}

CustomTextInputs ==
    {<< >>, <<" ">>, <<" ", " ">>, <<"X">>, <<" ", "X">>, <<"X", " ">>}

DerivedInputs ==
    {[NoDerived EXCEPT !.fn = "tocItems", !.toc = t] :
        t \in NavTrees(MaxTocDepth, MaxTocNodes)}
    \cup {[NoDerived EXCEPT !.fn = "resolveChapterTitle", !.toc = t, !.href = h] :
        t \in NavTrees(MaxTocDepth, MaxTocNodes - 1), h \in LocatorInputs}
    \cup {[NoDerived EXCEPT !.fn = "activeFontStack", !.fontChoice = f,
                            !.customFont = c] :
        f \in FontIdInputs, c \in CustomTextInputs}

InitDerived == InitComponent /\ derived \in DerivedInputs

Evaluate(fn, result) ==
    /\ derived.fn = fn
    /\ ~derived.done
    /\ derived' = [derived EXCEPT !.done = TRUE, !.result = result]
    /\ UNCHANGED <<ui, view, mounted, engineVars, sub, loads, pendingNull,
                   budgetVars, op>>

evalTocItems == Evaluate("tocItems", tocItems(derived.toc))

evalResolveChapterTitle ==
    Evaluate("resolveChapterTitle", resolveChapterTitle(derived.href, derived.toc))

evalActiveFontStack ==
    Evaluate("activeFontStack",
             activeFontStack(derived.fontChoice, derived.customFont))

NextDerived == evalTocItems \/ evalResolveChapterTitle \/ evalActiveFontStack

SpecDerived == InitDerived /\ [][NextDerived]_vars

\* ------------------------------------------------------------ specification
\* The session lifecycle: loads, their engine outcomes, and rendering.
Lifecycle ==
    \/ Render
    \/ CleanupDestroyed
    \/ \E l \in LoadIds : handleFileSelection(l)
    \/ \E l \in LoadIds : initialiseBook(l)
    \/ \E l \in LoadIds : destroyed(l)
    \/ \E l \in LoadIds : construct(l)
    \/ \E l \in LoadIds : displayed(l)
    \/ \E l \in LoadIds : navigationLoaded(l)
    \/ \E l \in LoadIds : bookReady(l)
    \/ \E l \in LoadIds : generated(l)
    \/ \E l \in LoadIds : rolledBack(l)

Navigation ==
    \/ goTo
    \/ goPrevious
    \/ goNext
    \/ handleProgressChange
    \/ \E r \in LoadIds : Relocated(r)

Typography ==
    \/ handleFontSizeChange
    \/ handleThemeChange
    \/ handleFontChoiceChange
    \/ handleCustomFontChange
    \/ handleLineSpacingChange

Next == Lifecycle \/ Navigation \/ Typography \/ Unmount

Spec == Init /\ [][Next]_vars

\* The lifecycle with navigation, and the lifecycle with typography edits.
NextNav == Lifecycle \/ Navigation

SpecNav == Init /\ [][NextNav]_vars

NextTypo == Lifecycle \/ Typography

SpecTypo == Init /\ [][NextTypo]_vars

\* The lifecycle with an unmount at any settled moment.
NextUnmount == Lifecycle \/ Unmount

SpecUnmount == Init /\ [][NextUnmount]_vars

\* ------------------------------------------------------------------ claims
\* The sessions the engine still holds: destroy() was never called on the
\* Book or on the Rendition.
LiveSessions == {i \in LoadIds : bookSt[i] = "live" \/ rendSt[i] = "live"}

LiveRenditions == {i \in LoadIds : rendSt[i] = "live"}

\* The step just taken returned load l from the try block.
Resolved(l) ==
    /\ loads[l].pc = "done"
    /\ op.load = l
    /\ op.name \in {"generated", "bookReady"}

\* The step just taken returned load l from the catch block.
JustFailed(l) ==
    /\ loads[l].pc = "failed"
    /\ op.load = l
    /\ op.cause # ""

LoadSteps ==
    {"handleFileSelection", "initialiseBook", "destroyed", "construct",
     "displayed", "navigationLoaded", "bookReady", "generated", "rolledBack"}

\* C1: for a load requested after the previous one returned with its session
\* published, the previous Book and Rendition are destroyed before the new
\* Book exists, and when the load resolves exactly one session is live.
C1_SessionExclusivity ==
    \A l \in LoadIds :
        (l > 1 /\ loads[l].sequential) =>
            /\ bookSt[l] # "none" =>
                   (bookSt[l - 1] = "destroyed" /\ rendSt[l - 1] = "destroyed")
            /\ Resolved(l) => Cardinality(LiveSessions) = 1

\* C2: in every reachable state at most one Rendition that was not destroyed
\* is attached to the viewport.
C2_NoConcurrentSessions == Cardinality(LiveRenditions) <= 1

\* C3: when a load whose construction (ePub or renderTo) threw returns, no
\* Book or Rendition is published, every earlier session is destroyed, the
\* TOC is empty, progress is 0, the chapter is empty and the error is set.
C3_ConstructionRollback ==
    \A l \in LoadIds :
        (JustFailed(l) /\ op.cause = "construct") =>
            /\ ui.book = NoHandle
            /\ ui.rendition = NoHandle
            /\ \A i \in LoadIds : i < l => (bookSt[i] # "live" /\ rendSt[i] # "live")
            /\ ui.toc = << >>
            /\ ui.progress = 0
            /\ ui.currentChapter = << >>
            /\ ui.error # ""

\* C4: when a load that failed after publishing its session (display or the
\* navigation metadata rejected) returns, its Rendition and Book are
\* destroyed, nothing is published, TOC, chapter and file name are empty,
\* progress is 0 and the error is set.
C4_PublishedRollback ==
    \A l \in LoadIds :
        (JustFailed(l) /\ op.cause \in {"displayed", "navigationLoaded"}) =>
            /\ rendSt[l] = "destroyed"
            /\ bookSt[l] = "destroyed"
            /\ ui.book = NoHandle
            /\ ui.rendition = NoHandle
            /\ ui.toc = << >>
            /\ ui.progress = 0
            /\ ui.currentChapter = << >>
            /\ ui.fileName = ""
            /\ ui.error # ""

\* C5: every initialiseBook call that has exited, on any path, ran
\* setLoading(false) after it ran setLoading(true).
C5_LoadingCleared ==
    \A l \in LoadIds : loads[l].pc \in Exited => loads[l].cleared

\* C6: a handler invoked while its guard fails (goTo, goPrevious, goNext
\* with no published rendition; handleProgressChange with no published book
\* or rendition or with an empty location index) issues no engine call and
\* changes neither the UI state nor the engine.
GuardViolation ==
    \/ /\ op'.name \in {"goTo", "goPrevious", "goNext"}
       /\ ui.rendition = NoHandle
    \/ /\ op'.name = "handleProgressChange"
       /\ (ui.book = NoHandle \/ ui.rendition = NoHandle \/ ~HasIndex(ui.book))

C6_GuardNoOp ==
    [][GuardViolation => (ui' = ui /\ op'.calls = {} /\ UNCHANGED engineVars)]_vars

\* handleProgressChange ran against a published session without an index.
C6_Witness ==
    /\ op.name = "handleProgressChange"
    /\ ui.book # NoHandle
    /\ ui.rendition # NoHandle
    /\ ~HasIndex(ui.book)
    /\ op.calls = {}

\* C7: in every committed render previous/next and the TOC entries are
\* enabled iff a book is published and loading is false, the slider is
\* enabled iff the published book has a location index and loading is false,
\* and the file input and the typography and theme controls are enabled.
C7_GuardTable ==
    Settled =>
        /\ ~navDisabled <=> (ui.book # NoHandle /\ ~ui.loading)
        /\ ~tocDisabled <=> (ui.book # NoHandle /\ ~ui.loading)
        /\ ~sliderDisabled <=> (HasIndex(ui.book) /\ ~ui.loading)
        /\ ~fileInputDisabled
        /\ ~themeControlDisabled
        /\ ~fontControlDisabled
        /\ ~fontSizeControlDisabled
        /\ ~lineSpacingControlDisabled

\* C8: while only the index generation of the published book is outstanding
\* (display done, TOC populated), previous/next and the TOC entries are
\* enabled and only the slider is disabled.
C8_GenerationDoesNotBlock ==
    \A l \in LoadIds :
        (loads[l].pc = "generating" /\ Settled /\ ui.book = l /\ ui.toc # << >>) =>
            (~navDisabled /\ ~tocDisabled /\ sliderDisabled)

\* C9: goTo(href) with a published rendition sets activeHref to the href
\* without its fragment, requests display(href) and leaves progress and
\* currentChapter unchanged; currentChapter changes only in a relocation
\* (or a step of a load), progress only in a relocation, a slider commit
\* (or a step of a load).
C9_GoToLeavesPosition ==
    [][ /\ (op'.name = "goTo" /\ ui.rendition # NoHandle) =>
               /\ ui'.activeHref = normalizeHref(op'.href)
               /\ CallHref("rendition.display", ui.rendition, op'.href) \in op'.calls
               /\ ui'.progress = ui.progress
               /\ ui'.currentChapter = ui.currentChapter
        /\ ui'.currentChapter # ui.currentChapter =>
               op'.name \in LoadSteps \cup {"Relocated"}
        /\ ui'.progress # ui.progress =>
               op'.name \in LoadSteps \cup {"Relocated", "handleProgressChange"}
      ]_vars

\* goTo ran on a TOC entry with a fragment while a chapter was displayed.
C9_Witness ==
    /\ op.name = "goTo"
    /\ op.calls # {}
    /\ op.href # normalizeHref(op.href)
    /\ ui.activeHref = normalizeHref(op.href)
    /\ ui.currentChapter # << >>

\* C10: no step of a load (request, resets, destruction, construction,
\* engine outcomes, rollback) changes fontSize, fontChoice, customFont,
\* lineSpacing or theme.
TypographyOf(u) == <<u.fontSize, u.fontChoice, u.customFont, u.lineSpacing, u.theme>>

C10_LoadKeepsTypography ==
    [][op'.name \in LoadSteps => TypographyOf(ui') = TypographyOf(ui)]_vars

\* A load that replaced a session failed and returned, with a font size and
\* a theme that were edited before it was requested.
C10_Witness ==
    \E l \in LoadIds :
        /\ l > 1
        /\ loads[l].pc = "failed"
        /\ loads[l].cFontSize = MAX_FONT_SIZE
        /\ loads[l].cBook # NoHandle
        /\ ui.fontSize = MAX_FONT_SIZE
        /\ ui.theme = "dark"

\* The location object of the relocation event just handled.
EventOf(o) == CHOOSE location \in RelocationInputs : location.href = o.href

\* The step is a relocation event with a start position, delivered to the
\* attached listener.
HandledRelocation ==
    /\ op'.name = "Relocated"
    /\ sub.rendition = op'.load
    /\ EventOf(op').hasStart

\* C11: a relocation event handled while the published book has a location
\* index sets progress to the engine's fraction times 100 to the nearest
\* tenth (0.4567 gives 45.7), or to 0 when the fraction is not finite; with
\* an empty index the event leaves progress unchanged.
C11_RelocationProgress ==
    [][HandledRelocation =>
         LET location == EventOf(op')
             distance == 10 * ui'.progress - location.fraction
         IN  IF HasIndex(ui.book)
             THEN IF location.finite
                  THEN /\ -5 <= distance /\ distance <= 5
                       /\ location.fraction = 4567 => ui'.progress = 457
                  ELSE ui'.progress = 0
             ELSE ui'.progress = ui.progress
      ]_vars

\* A relocation at fraction 0.4567 was handled with a location index.
C11_Witness ==
    /\ op.name = "Relocated"
    /\ op.href = <<"a">>
    /\ sub.rendition = op.load
    /\ HasIndex(ui.book)
    /\ ui.progress = 457

\* C12: once the component has unmounted, the rendition and the book that
\* were published are destroyed and the engine holds no live session.
C12_UnmountLeavesNothingLive ==
    ~mounted =>
        /\ ui.rendition # NoHandle => rendSt[ui.rendition] = "destroyed"
        /\ ui.book # NoHandle => bookSt[ui.book] = "destroyed"
        /\ LiveSessions = {}

\* The positions of a navigation tree: the sequence of child indexes that
\* leads to each node.
RECURSIVE PathsOf(_)
PathsOf(items) ==
    UNION { {<<i>>} \cup {<<i>> \o q : q \in PathsOf(items[i].subitems)} :
            i \in 1..Len(items) }

RECURSIVE NodeAt(_, _)
NodeAt(items, path) ==
    IF Len(path) = 1 THEN items[path[1]]
    ELSE NodeAt(items[path[1]].subitems, Tail(path))

\* Pre-order: a node comes before its descendants, and a subtree before the
\* subtrees of the later siblings.
RECURSIVE Before(_, _)
Before(a, b) ==
    IF a = << >> THEN b # << >>
    ELSE IF b = << >> THEN FALSE
    ELSE IF Head(a) = Head(b) THEN Before(Tail(a), Tail(b))
    ELSE Head(a) < Head(b)

Rank(path, paths) == 1 + Cardinality({q \in paths : Before(q, path)})

\* C13: the flattened TOC of a navigation tree has one entry per node of
\* the tree, in pre-order with the siblings in their order; a top-level
\* entry has depth 0 and a child its parent's depth plus 1 (so the depth is
\* the number of ancestors).
C13_FlattenPreOrder ==
    (derived.fn = "tocItems" /\ derived.done) =>
        LET paths == PathsOf(derived.toc)
            flat == derived.result
        IN  /\ Len(flat) = Cardinality(paths)
            /\ Len(flat) = CountItems(derived.toc)
            /\ \A path \in paths :
                   LET entry == flat[Rank(path, paths)]
                       node == NodeAt(derived.toc, path)
                   IN  /\ entry.label = node.label
                       /\ entry.href = node.href
                       /\ entry.subitems = node.subitems
                       /\ entry.depth = Len(path) - 1

\* A tree of three levels with a second top-level item was flattened.
C13_Witness ==
    /\ derived.fn = "tocItems"
    /\ derived.done
    /\ Len(derived.toc) = 2
    /\ Len(derived.result) = 4
    /\ derived.result[3].depth = 2
    /\ derived.result[4].depth = 0
    /\ derived.result[4].href # derived.result[1].href

\* The href without the '#' and what follows it.
Stripped(href) ==
    IF \E i \in 1..Len(href) : href[i] = "#"
    THEN LET i == CHOOSE k \in 1..Len(href) :
                      href[k] = "#" /\ \A j \in 1..(k - 1) : href[j] # "#"
         IN  [j \in 1..(i - 1) |-> href[j]]
    ELSE href

\* The label without its leading and trailing white space.
Trimmed(label) ==
    LET inked == {i \in 1..Len(label) : label[i] # " "}
    IN  IF inked = {} THEN << >>
        ELSE LET first == CHOOSE i \in inked : \A j \in inked : i <= j
                 last == CHOOSE i \in inked : \A j \in inked : j <= i
             IN  [j \in 1..(last - first + 1) |-> label[first + j - 1]]

\* C14: resolveChapterTitle(locator) is the trimmed label of the first
\* flattened TOC entry whose href without fragment equals the locator
\* without fragment; it is the empty string when no entry matches, when the
\* locator is empty and when the TOC is empty (no fuzzy or ancestor fallback).
C14_ResolveChapterTitle ==
    (derived.fn = "resolveChapterTitle" /\ derived.done) =>
        LET flat == tocItems(derived.toc)
            matches == {i \in 1..Len(flat) :
                           Stripped(flat[i].href) = Stripped(derived.href)}
        IN  IF derived.href = << >> \/ flat = << >> \/ matches = {}
            THEN derived.result = << >>
            ELSE LET first == CHOOSE i \in matches : \A j \in matches : i <= j
                 IN  derived.result = Trimmed(flat[first].label)

\* A locator with a fragment resolved to the padded label of the second of
\* three entries, the third having the same href without fragment.
C14_Witness ==
    /\ derived.fn = "resolveChapterTitle"
    /\ derived.done
    /\ derived.href = <<"a", "#", "t">>
    /\ Len(tocItems(derived.toc)) = 3
    /\ tocItems(derived.toc)[1].href = <<"b">>
    /\ tocItems(derived.toc)[2].href = <<"a">>
    /\ tocItems(derived.toc)[3].href = <<"a", "#", "s">>
    /\ derived.result = <<"I">>

\* C15: the active font stack is never empty.  With the custom option it is
\* the trimmed custom text when that is not empty, else the first built-in
\* stack; with another id it is the stack of that built-in option, or the
\* first built-in stack when no option has the id.
C15_ActiveFontStack ==
    (derived.fn = "activeFontStack" /\ derived.done) =>
        LET known == {i \in 1..Len(FONT_OPTIONS) :
                         FONT_OPTIONS[i].id = derived.fontChoice}
        IN  /\ derived.result # << >>
            /\ IF derived.fontChoice = CUSTOM_FONT_ID
               THEN derived.result =
                        IF Trimmed(derived.customFont) # << >>
                        THEN Trimmed(derived.customFont)
                        ELSE FONT_OPTIONS[1].stack
               ELSE IF known = {} THEN derived.result = FONT_OPTIONS[1].stack
               ELSE \A i \in known : derived.result = FONT_OPTIONS[i].stack

\* The custom option was resolved with blank custom text.
C15_Witness ==
    /\ derived.fn = "activeFontStack"
    /\ derived.done
    /\ derived.fontChoice = CUSTOM_FONT_ID
    /\ derived.customFont = <<" ", " ">>
    /\ derived.result = FONT_OPTIONS[1].stack

\* The engine operations on a Rendition.
RenditionOps ==
    {"rendition.display", "rendition.prev", "rendition.next", "themes.fontSize",
     "themes.register", "themes.select", "rendition.on", "rendition.destroy"}

\* C16: no step calls display, prev, next, a font-size or theme
\* application, the relocation subscription or destroy on a Rendition, or
\* destroy on a Book, on which destroy had been called before the step; in
\* particular no Rendition and no Book is destroyed twice.
C16_NoUseAfterDestroy ==
    [][\A c \in op'.calls :
          /\ c.m \in RenditionOps => rendSt[c.h] # "destroyed"
          /\ c.m = "book.destroy" => bookSt[c.h] # "destroyed"
      ]_vars

\* C17: a relocation event with a start position, delivered to the
\* listener, sets activeHref to the start href without its fragment and
\* currentChapter to resolveChapterTitle of that locator over the loaded
\* TOC; an event without a start position changes no state.
C17_RelocationSetsChapter ==
    [][(op'.name = "Relocated" /\ sub.rendition = op'.load) =>
         IF EventOf(op').hasStart
         THEN /\ ui'.activeHref = Stripped(op'.href)
              /\ ui'.currentChapter = resolveChapterTitle(Stripped(op'.href), ui.toc)
         ELSE ui' = ui
      ]_vars

\* A relocation to b#y was handled with the TOC loaded: the locator is b and
\* the chapter is the label of the entry b#x.
C17_Witness ==
    /\ op.name = "Relocated"
    /\ sub.rendition = op.load
    /\ op.href = <<"b", "#", "y">>
    /\ ui.toc # << >>
    /\ ui.activeHref = <<"b">>
    /\ ui.currentChapter = <<"C">>

\* C18: in every committed render with a published rendition, the style
\* sheet selected on that rendition is the one composed from the current
\* theme, font choice, custom font and line spacing, and its font-size scale
\* is the current fontSize.
C18_TypographyApplied ==
    (Settled /\ ui.rendition # NoHandle) =>
        /\ rendTheme[ui.rendition] = ThemeOf(ui)
        /\ rendFont[ui.rendition] = ui.fontSize

\* A second session was published after the font size and the theme were
\* edited while its file was being read, and the effects have run.
C18_Witness ==
    /\ Settled
    /\ ui.rendition = 2
    /\ rendSt[2] = "live"
    /\ loads[2].cFontSize = InitialFontSize
    /\ ui.fontSize = MAX_FONT_SIZE
    /\ ui.theme = "dark"
    /\ rendFont[2] = MAX_FONT_SIZE
    /\ rendTheme[2].base = "dark"

\* No initialiseBook call is between its start and its return, and no
\* destroyCurrentBook call of an effect cleanup awaits book.destroy().
NoLoadInFlight ==
    /\ \A l \in LoadIds : loads[l].pc \notin InFlight \cup {"reading"}
    /\ pendingNull = 0

\* C19: in every committed render with no load in flight, book and
\* rendition are both null or both handles of one session that is not
\* destroyed, and every session the engine still holds is the published one.
C19_HandlesAgreeWithEngine ==
    (Settled /\ NoLoadInFlight) =>
        /\ \/ ui.book = NoHandle /\ ui.rendition = NoHandle
           \/ /\ ui.book # NoHandle
              /\ ui.book = ui.rendition
              /\ bookSt[ui.book] = "live"
              /\ rendSt[ui.rendition] = "live"
        /\ \A i \in LiveSessions : ui.book = i /\ ui.rendition = i

\* C20: loading is true in every state in which some initialiseBook call
\* has run setLoading(true) and has not reached its finally block, also
\* when two calls overlap and one of them finishes first.
C20_LoadingWhileInFlight ==
    (\E l \in LoadIds : loads[l].pc \in InFlight) => ui.loading

\* C21: in every state with a book published, no load in flight and no
\* navigation of the published rendition pending, currentChapter is
\* resolveChapterTitle(activeHref) over the loaded TOC, also for the position
\* that the initial display of a freshly loaded book reported.
C21_ChapterMatchesLocator ==
    ( /\ ui.book # NoHandle
      /\ \A l \in LoadIds : loads[l].pc \notin InFlight \cup {"reading"}
      /\ ui.rendition # NoHandle => ~navPending[ui.rendition] ) =>
        ui.currentChapter = resolveChapterTitle(ui.activeHref, ui.toc)

====
